---- MODULE Spec2Model ----
(***************************************************************************)
(* Model of EAD_EnergyAwareDrone.cxx: the distance loop of main over a     *)
(* waypoint list, findOptimalSpeedAndAltitude, energyConsumption, the      *)
(* total energy and the four output lines.                                 *)
(*                                                                         *)
(* Numbers.  The program computes in C++ double (IEEE-754 binary64).       *)
(* The model keeps the IEEE-754 rules (binary significand, gradual         *)
(* underflow, round to nearest even, signed zero, +Inf, -Inf, NaN) at the  *)
(* width of IEEE-754 binary16: 11 significand bits, least-significant-bit  *)
(* exponents -24 .. 5 (largest finite value 65504, smallest positive       *)
(* value 2^-24).  A finite value is sign * m * 2^e.                        *)
(***************************************************************************)
EXTENDS Integers, Sequences, FiniteSets

\* ------------------------------------------------------------ double ----

\* Significand bits of the number format.
Precision == 11
\* Exponent of the least significant bit of the smallest positive values.
MinExp == -24
\* Exponent of the least significant bit of the largest finite values.
MaxExp == 5

RECURSIVE BitLen(_)
\* Number of binary digits of a natural number (0 for 0).
BitLen(n) == IF n = 0 THEN 0 ELSE 1 + BitLen(n \div 2)

Max(x, y) == IF x >= y THEN x ELSE y
Min(x, y) == IF x <= y THEN x ELSE y

Fin(s, m, e) == [k |-> "fin", s |-> s, m |-> m, e |-> e]
Inf(s) == [k |-> "inf", s |-> s, m |-> 0, e |-> 0]
NaN == [k |-> "nan", s |-> 1, m |-> 0, e |-> 0]
Zero(s) == Fin(s, 0, MinExp)

IsNaN(x) == x.k = "nan"
IsInf(x) == x.k = "inf"
IsFinite(x) == x.k = "fin"
IsZero(x) == x.k = "fin" /\ x.m = 0

\* The value nearest to sign * (m + f) * 2^e in the format whose
\* least-significant-bit exponents are lo .. hi, where 0 < f < 1 if sticky
\* and f = 0 otherwise; ties go to the even significand, values beyond the
\* largest finite one to infinity.  A caller that sets sticky passes an m of
\* at least Precision + 2 bits.
RoundIn(lo, hi, s, m, e, sticky) ==
    IF m = 0 /\ ~sticky THEN Fin(s, 0, lo)
    ELSE LET sh == Max(BitLen(m) - Precision, lo - e) IN
         IF sh > 30 THEN Fin(s, 0, lo)
         ELSE IF sh <= 0
         THEN LET up == Min(Precision - BitLen(m), e - lo) IN
              Fin(s, m * 2^up, e - up)
         ELSE LET q    == m \div 2^sh
                  r    == m % 2^sh
                  half == 2^(sh - 1)
                  inc  == r > half \/ (r = half /\ (sticky \/ q % 2 = 1))
                  q1   == IF inc THEN q + 1 ELSE q
                  m2   == IF q1 = 2^Precision THEN 2^(Precision - 1) ELSE q1
                  e2   == IF q1 = 2^Precision THEN e + sh + 1 ELSE e + sh
              IN  IF m2 = 0 THEN Fin(s, 0, lo)
                  ELSE IF e2 > hi THEN Inf(s)
                  ELSE Fin(s, m2, e2)

\* Rounding to a double.
Round(s, m, e, sticky) == RoundIn(MinExp, MaxExp, s, m, e, sticky)

\* Conversion of an integer (an int literal, or a whole-number double literal).
FromInt(n) == Round(IF n < 0 THEN -1 ELSE 1, IF n < 0 THEN -n ELSE n, 0, FALSE)

\* Unary minus.
FNeg(x) == IF IsNaN(x) THEN NaN ELSE [x EXCEPT !.s = -x.s]

\* x + y on doubles.
FAdd(x, y) ==
    IF IsNaN(x) \/ IsNaN(y) THEN NaN
    ELSE IF IsInf(x) /\ IsInf(y) THEN (IF x.s = y.s THEN x ELSE NaN)
    ELSE IF IsInf(x) THEN x
    ELSE IF IsInf(y) THEN y
    ELSE IF x.m = 0 /\ y.m = 0 THEN Zero(IF x.s = -1 /\ y.s = -1 THEN -1 ELSE 1)
    ELSE IF x.m = 0 THEN y
    ELSE IF y.m = 0 THEN x
    ELSE LET big   == IF x.e >= y.e THEN x ELSE y
             small == IF x.e >= y.e THEN y ELSE x
             d     == big.e - small.e
         IN  IF d > Precision + 2
             THEN \* the small operand lies below the rounding position
                  IF big.s = small.s
                  THEN Round(big.s, big.m * 8, big.e - 3, TRUE)
                  ELSE Round(big.s, big.m * 8 - 1, big.e - 3, TRUE)
             ELSE LET sum == big.s * big.m * 2^d + small.s * small.m IN
                  IF sum = 0 THEN Zero(1)
                  ELSE Round(IF sum < 0 THEN -1 ELSE 1,
                             IF sum < 0 THEN -sum ELSE sum, small.e, FALSE)

\* x - y on doubles.
FSub(x, y) == FAdd(x, FNeg(y))

\* x * y on doubles.
FMul(x, y) ==
    IF IsNaN(x) \/ IsNaN(y) THEN NaN
    ELSE IF IsInf(x) \/ IsInf(y)
    THEN (IF IsZero(x) \/ IsZero(y) THEN NaN ELSE Inf(x.s * y.s))
    ELSE Round(x.s * y.s, x.m * y.m, x.e + y.e, FALSE)

\* The value nearest to s * (n / d) * 2^e, for naturals n and d > 0.
DivRound(s, n, d, e) ==
    IF n = 0 THEN Zero(s)
    ELSE LET k   == Max(0, Precision + 2 + BitLen(d) - BitLen(n))
             num == n * 2^k
         IN  Round(s, num \div d, e - k, num % d # 0)

\* x / y on doubles.
FDiv(x, y) ==
    IF IsNaN(x) \/ IsNaN(y) THEN NaN
    ELSE IF IsInf(x) THEN (IF IsInf(y) THEN NaN ELSE Inf(x.s * y.s))
    ELSE IF IsInf(y) THEN Zero(x.s * y.s)
    ELSE IF y.m = 0 THEN (IF x.m = 0 THEN NaN ELSE Inf(x.s * y.s))
    ELSE DivRound(x.s * y.s, x.m, y.m, x.e - y.e)

RECURSIVE ISqrtIn(_, _, _)
\* The largest r in lo .. hi with r * r <= n (lo * lo <= n assumed).
ISqrtIn(n, lo, hi) ==
    IF lo = hi THEN lo
    ELSE LET mid == (lo + hi + 1) \div 2 IN
         IF mid * mid <= n THEN ISqrtIn(n, mid, hi) ELSE ISqrtIn(n, lo, mid - 1)

\* std::sqrt on doubles.
FSqrt(x) ==
    IF IsNaN(x) THEN NaN
    ELSE IF IsZero(x) THEN x
    ELSE IF x.s = -1 THEN NaN
    ELSE IF IsInf(x) THEN x
    ELSE LET k0   == 2 * Precision + 3 - BitLen(x.m)
             k    == IF (x.e - k0) % 2 = 0 THEN k0 ELSE k0 + 1
             n    == x.m * 2^k
             root == ISqrtIn(n, 0, 2^(Precision + 3))
         IN  Round(1, root, (x.e - k) \div 2, root * root # n)

\* std::pow(x, 2): the square of x.
FPow2(x) == FMul(x, x)

\* A decimal literal n/d of the source (0.1 is Lit(1, 10)): the nearest value.
Lit(n, d) == DivRound(IF n < 0 THEN -1 ELSE 1, IF n < 0 THEN -n ELSE n, d, 0)

\* A double that has been declared and not yet assigned.
Unset == [k |-> "unset", s |-> 1, m |-> 0, e |-> 0]

\* ----------------------------------------------------------- program ----

\* struct Waypoint { double x, y, z; } from whole-number literals.
Waypoint(x, y, z) == [x |-> FromInt(x), y |-> FromInt(y), z |-> FromInt(z)]

\* A distance that leaves the z term out: the planar distance.
DistancePlanar(wp1, wp2) ==
    FSqrt(FAdd(FPow2(FSub(wp2.x, wp1.x)), FPow2(FSub(wp2.y, wp1.y))))

\* double distance(const Waypoint& wp1, const Waypoint& wp2)
Distance(wp1, wp2) ==
    FSqrt(FAdd(FAdd(FPow2(FSub(wp2.x, wp1.x)),
                    FPow2(FSub(wp2.y, wp1.y))),
               FPow2(FSub(wp2.z, wp1.z))))

\* An energy model that leaves the constant term c out.
EnergyWithoutConstant(velocity, altitude, ca, cb, cc) ==
    FAdd(FMul(ca, FPow2(velocity)), FMul(cb, altitude))

\* double energyConsumption(velocity, altitude, a, b, c)
EnergyConsumption(velocity, altitude, ca, cb, cc) ==
    FAdd(FAdd(FMul(ca, FPow2(velocity)), FMul(cb, altitude)), cc)

\* The comparison a != 0 on doubles (true for NaN).
NotEqualZero(x) == ~IsZero(x)

\* x >= 0 (false for NaN).
NonNegative(x) == (IsFinite(x) \/ IsInf(x)) /\ (x.s = 1 \/ IsZero(x))
\* x > 0.
Positive(x) == NonNegative(x) /\ ~IsZero(x)
\* x < 0.
Negative(x) == (IsFinite(x) \/ IsInf(x)) /\ x.s = -1 /\ ~IsZero(x)

\* An optimizer without the branch on a != 0: it always divides.
FindOptimalUnguarded(ca, cb) ==
    [velocity |-> FSqrt(FDiv(cb, FMul(FromInt(2), ca))),
     altitude |-> FromInt(100), divided |-> TRUE]

\* An optimizer that divides by a instead of 2 * a.
FindOptimalWithoutTwo(ca, cb) ==
    IF NotEqualZero(ca)
    THEN [velocity |-> FSqrt(FDiv(cb, ca)),
          altitude |-> FromInt(100), divided |-> TRUE]
    ELSE [velocity |-> FromInt(0), altitude |-> FromInt(100), divided |-> FALSE]

\* An optimizer that recovers from a negative quotient by returning 0.
FindOptimalRecovering(ca, cb) ==
    IF NotEqualZero(ca) /\ ~Negative(FDiv(cb, FMul(FromInt(2), ca)))
    THEN [velocity |-> FSqrt(FDiv(cb, FMul(FromInt(2), ca))),
          altitude |-> FromInt(100), divided |-> TRUE]
    ELSE [velocity |-> FromInt(0), altitude |-> FromInt(100),
          divided |-> NotEqualZero(ca)]

\* std::tuple<double, double> findOptimalSpeedAndAltitude(double a, double b).
\* The field divided records whether b / (2 * a) was evaluated.
FindOptimalSpeedAndAltitude(ca, cb) ==
    IF NotEqualZero(ca)
    THEN [velocity |-> FSqrt(FDiv(cb, FMul(FromInt(2), ca))),
          altitude |-> FromInt(100), divided |-> TRUE]
    ELSE [velocity |-> FromInt(0), altitude |-> FromInt(100), divided |-> FALSE]

\* Width of size_t in the model (64 in the build; TLC's integers are 32 bits
\* wide, so the wrap-around of an unsigned subtraction is kept at 30 bits).
SizeBits == 30

\* A loop bound that is one too small: waypoints.size() - 2.
LoopBoundShort(n) == (n - 2) % 2^SizeBits

\* waypoints.size() - 1 in unsigned arithmetic.
LoopBound(n) == (n - 1) % 2^SizeBits

\* The waypoints and coefficients main is built with.
RefWaypoints == << Waypoint(0, 0, 100), Waypoint(100, 100, 150),
                   Waypoint(200, 50, 120), Waypoint(300, 200, 150) >>
RefA == Lit(1, 10)
RefB == Lit(5, 100)
RefC == FromInt(10)

VARIABLES
    pc,               \* position in main
    waypoints,        \* std::vector<Waypoint> waypoints
    a, b, c,          \* the coefficients of the energy model
    i,                \* the loop index
    dist,             \* the value of the latest distance(...) call
    totalDistance,    \* double totalDistance
    optimalVelocity,  \* double optimalVelocity
    optimalAltitude,  \* double optimalAltitude
    energyPerUnit,    \* the value of the energyConsumption(...) call
    totalEnergy,      \* double totalEnergy
    out,              \* the lines written to std::cout
    exitStatus,       \* << >> while running, then the process's exit status
    calls,            \* history: the calls and steps made so far, in order
    pairs,            \* history: the index pairs handed to distance, in order
    divided,          \* history: b / (2 * a) has been evaluated
    oob               \* history: a waypoint outside the vector has been read

vars == << pc, waypoints, a, b, c, i, dist, totalDistance, optimalVelocity,
           optimalAltitude, energyPerUnit, totalEnergy, out, exitStatus,
           calls, pairs, divided, oob >>

inputs == << waypoints, a, b, c >>

\* ------------------------------------------------------------- bounds ----

\* Longest waypoint list explored besides main's own.
MaxWaypoints == 3
\* Out-of-bounds reads a run may survive before it is killed.
MaxOobReads == 2

\* Waypoints the explored lists are made of (pairwise distances 5, 12, 13).
Points == { Waypoint(0, 0, 0), Waypoint(3, 4, 0), Waypoint(3, 4, 12) }

\* The positive values of smallest and of largest magnitude.
MinPositive == Fin(1, 1, MinExp)
MaxFinite == Fin(1, 2^Precision - 1, MaxExp)

CoefA == { FromInt(0), Lit(1, 10), Lit(-1, 10), FromInt(-4), FNeg(MaxFinite) }
CoefB == { FromInt(0), Lit(5, 100), Lit(-5, 100), MinPositive }
CoefC == { FromInt(0), FromInt(10) }

RECURSIVE SeqsOf(_, _)
\* The sequences over S of length n.
SeqsOf(S, n) ==
    IF n = 0 THEN { << >> }
    ELSE { Append(q, x) : q \in SeqsOf(S, n - 1), x \in S }

\* The state main is in when the distance loop is reached (lines 96-122).
Start(ws, ca, cb, cc) ==
    /\ pc = "loop"
    /\ waypoints = ws
    /\ a = ca /\ b = cb /\ c = cc
    /\ i = 0
    /\ dist = Unset
    /\ totalDistance = FromInt(0)
    /\ optimalVelocity = Unset
    /\ optimalAltitude = Unset
    /\ energyPerUnit = Unset
    /\ totalEnergy = Unset
    /\ out = << >>
    /\ exitStatus = << >>
    /\ calls = << >>
    /\ pairs = << >>
    /\ divided = FALSE
    /\ oob = FALSE

\* main with its own data, and with every non-empty list and coefficient
\* triple of the bounds.
Init ==
    \/ Start(RefWaypoints, RefA, RefB, RefC)
    \/ \E n \in 1 .. MaxWaypoints : \E ws \in SeqsOf(Points, n) :
         \E ca \in CoefA, cb \in CoefB, cc \in CoefC : Start(ws, ca, cb, cc)

\* ------------------------------------------------------------ actions ----

\* Line 123, the loop condition i < waypoints.size() - 1.
LoopCondition == i < LoopBound(Len(waypoints))

\* Lines 123-125, one iteration: i < waypoints.size() - 1 holds, the body
\* reads waypoints[i] and waypoints[i + 1], adds their distance, ++i.
\* Reading outside the vector is undefined: the process is killed, or the
\* read yields whatever lies there and the loop goes on.
LoopBody ==
    /\ pc = "loop"
    /\ LoopCondition
    /\ IF i + 2 <= Len(waypoints)
       THEN /\ LET d == Distance(waypoints[i + 1], waypoints[i + 2]) IN
                 /\ dist' = d
                 /\ totalDistance' = FAdd(totalDistance, d)
            /\ i' = i + 1
            /\ calls' = Append(calls, "distance")
            /\ pairs' = Append(pairs, << i, i + 1 >>)
            /\ UNCHANGED << pc, exitStatus, oob >>
       ELSE /\ oob' = TRUE
            /\ pairs' = Append(pairs, << i, i + 1 >>)
            /\ \/ /\ pc' = "crashed"
                  /\ exitStatus' = << 139 >>
                  /\ UNCHANGED << dist, totalDistance, i, calls >>
               \/ /\ i < MaxOobReads
                  /\ \E g1 \in Points, g2 \in Points :
                       LET d == Distance(g1, g2) IN
                         /\ dist' = d
                         /\ totalDistance' = FAdd(totalDistance, d)
                  /\ i' = i + 1
                  /\ calls' = Append(calls, "distance")
                  /\ UNCHANGED << pc, exitStatus >>
    /\ UNCHANGED << inputs, optimalVelocity, optimalAltitude, energyPerUnit,
                    totalEnergy, out, divided >>

\* Line 123, the loop condition is false.
LoopExit ==
    /\ pc = "loop"
    /\ ~LoopCondition
    /\ pc' = "optimize"
    /\ UNCHANGED << inputs, i, dist, totalDistance, optimalVelocity,
                    optimalAltitude, energyPerUnit, totalEnergy, out,
                    exitStatus, calls, pairs, divided, oob >>

\* An optimizer call that also doubles the coefficient a it was handed.
OptimizeRescaling ==
    /\ pc = "optimize"
    /\ optimalVelocity' = FindOptimalSpeedAndAltitude(a, b).velocity
    /\ optimalAltitude' = FindOptimalSpeedAndAltitude(a, b).altitude
    /\ divided' = FindOptimalSpeedAndAltitude(a, b).divided
    /\ a' = FMul(FromInt(2), a)
    /\ calls' = Append(calls, "findOptimalSpeedAndAltitude")
    /\ pc' = "energy"
    /\ UNCHANGED << waypoints, b, c, i, dist, totalDistance, energyPerUnit,
                    totalEnergy, out, exitStatus, pairs, oob >>

\* Lines 132-133.
Optimize ==
    /\ pc = "optimize"
    /\ LET r == FindOptimalSpeedAndAltitude(a, b) IN
         /\ optimalVelocity' = r.velocity
         /\ optimalAltitude' = r.altitude
         /\ divided' = r.divided
    /\ calls' = Append(calls, "findOptimalSpeedAndAltitude")
    /\ pc' = "energy"
    /\ UNCHANGED << inputs, i, dist, totalDistance, energyPerUnit,
                    totalEnergy, out, exitStatus, pairs, oob >>

\* Line 142.
Energy ==
    /\ pc = "energy"
    /\ LET e == EnergyConsumption(optimalVelocity, optimalAltitude, a, b, c)
       IN  /\ energyPerUnit' = e
           /\ totalEnergy' = FMul(e, totalDistance)
    /\ calls' = calls \o << "energyConsumption", "multiply" >>
    /\ pc' = "print"
    /\ UNCHANGED << inputs, i, dist, totalDistance, optimalVelocity,
                    optimalAltitude, out, exitStatus, pairs, divided, oob >>

\* The four lines with the velocity and altitude lines exchanged.
OutputLinesExchanged ==
    << [label |-> "Total Distance: ", value |-> totalDistance,
        unit |-> " meters"],
       [label |-> "Optimal Altitude: ", value |-> optimalAltitude,
        unit |-> " meters"],
       [label |-> "Optimal Velocity: ", value |-> optimalVelocity,
        unit |-> " m/s"],
       [label |-> "Estimated Total Energy: ", value |-> totalEnergy,
        unit |-> " units"] >>

\* The four std::cout statements of lines 146-149, in source order.
\* A line holds the double handed to operator<<; its decimal rendering (six
\* significant digits) is not modelled, so documented figures are compared
\* with the value within a tolerance.
OutputLines ==
    << [label |-> "Total Distance: ", value |-> totalDistance,
        unit |-> " meters"],
       [label |-> "Optimal Velocity: ", value |-> optimalVelocity,
        unit |-> " m/s"],
       [label |-> "Optimal Altitude: ", value |-> optimalAltitude,
        unit |-> " meters"],
       [label |-> "Estimated Total Energy: ", value |-> totalEnergy,
        unit |-> " units"] >>

\* One of lines 146-149: the next output line.
WriteLine ==
    /\ pc = "print"
    /\ Len(out) < Len(OutputLines)
    /\ out' = Append(out, OutputLines[Len(out) + 1])
    /\ calls' = Append(calls, OutputLines[Len(out) + 1].label)
    /\ pc' = IF Len(out) + 1 = Len(OutputLines) THEN "return" ELSE "print"
    /\ UNCHANGED << inputs, i, dist, totalDistance, optimalVelocity,
                    optimalAltitude, energyPerUnit, totalEnergy, exitStatus,
                    pairs, divided, oob >>

\* Line 151.
Return ==
    /\ pc = "return"
    /\ exitStatus' = << 0 >>
    /\ calls' = Append(calls, "return")
    /\ pc' = "done"
    /\ UNCHANGED << inputs, i, dist, totalDistance, optimalVelocity,
                    optimalAltitude, energyPerUnit, totalEnergy, out, pairs,
                    divided, oob >>

Next == LoopBody \/ LoopExit \/ Optimize \/ Energy \/ WriteLine \/ Return

\* main on non-empty waypoint lists.
Spec == Init /\ [][Next]_vars

\* The orchestrator on the lists without a consecutive pair: the empty list
\* and the one-waypoint lists.
InitBoundary ==
    \E n \in 0 .. 1 : \E ws \in SeqsOf(Points, n) :
      \E ca \in CoefA, cb \in CoefB, cc \in CoefC : Start(ws, ca, cb, cc)

SpecBoundary == InitBoundary /\ [][Next]_vars

\* Values the pure functions are tried on: zeros of both signs, the smallest
\* and the largest magnitudes, and values in between.
TestValues ==
    { FromInt(0), Zero(-1), MinPositive, FNeg(MinPositive),
      Fin(1, 2^(Precision - 1), MinExp), Lit(1, 1000), Lit(5, 100),
      Lit(-5, 100), Lit(1, 10), Lit(-1, 10), Lit(1, 3), FromInt(1),
      FromInt(-1), FromInt(2), FromInt(3), FromInt(-4), FromInt(10),
      FromInt(100), FromInt(1000), FromInt(32768), FromInt(-32768),
      MaxFinite, FNeg(MaxFinite) }

\* findOptimalSpeedAndAltitude applied once to each pair of test values: main
\* after the loop over a one-waypoint list.
InitOptimizer ==
    \E ca \in TestValues, cb \in TestValues :
      /\ pc = "optimize"
      /\ waypoints = << Waypoint(0, 0, 0) >>
      /\ a = ca /\ b = cb /\ c = FromInt(10)
      /\ i = 0
      /\ dist = Unset
      /\ totalDistance = FromInt(0)
      /\ optimalVelocity = Unset
      /\ optimalAltitude = Unset
      /\ energyPerUnit = Unset
      /\ totalEnergy = Unset
      /\ out = << >>
      /\ exitStatus = << >>
      /\ calls = << >>
      /\ pairs = << >>
      /\ divided = FALSE
      /\ oob = FALSE

SpecOptimizer == InitOptimizer /\ [][Optimize]_vars

\* Coordinates distance is tried on: 0, the smallest positive value, its
\* square root, an ordinary value, the largest value.
TestCoords ==
    { FromInt(0), MinPositive, FSqrt(MinPositive), FromInt(3), MaxFinite }

TestPoints == { [x |-> cx, y |-> cy, z |-> cz] :
                  cx \in TestCoords, cy \in TestCoords, cz \in TestCoords }

\* distance applied once to each pair of test points: the first iteration of
\* the loop over a two-waypoint list.
InitDistance ==
    \E p \in TestPoints, q \in TestPoints : Start(<< p, q >>, RefA, RefB, RefC)

SpecDistance == InitDistance /\ [][LoopBody]_vars

\* ------------------------------------------------------------- claims ----

\* Units in the last place two computed values may differ by and still count
\* as equal "within floating tolerance".
UlpTolerance == 6

\* The claims' reference arithmetic: products rounded to the same precision
\* in an exponent range wide enough that none of them overflows or
\* underflows, so that a comparison within the tolerance is not itself
\* limited by the range of double.
WideMinExp == 4 * MinExp
WideMaxExp == 4 * (MaxExp + Precision)
WideMul(x, y) ==
    RoundIn(WideMinExp, WideMaxExp, x.s * y.s, x.m * y.m, x.e + y.e, FALSE)

\* The position of a finite value of the wide format among its values in
\* increasing order.
Ord(x) ==
    LET w == RoundIn(WideMinExp, WideMaxExp, x.s, x.m, x.e, FALSE) IN
    w.s * (IF w.m < 2^(Precision - 1) THEN w.m
           ELSE (w.e - WideMinExp) * 2^(Precision - 1) + w.m)

\* x and y are finite and at most k representable values apart.
Within(x, y, k) ==
    /\ IsFinite(x) /\ IsFinite(y)
    /\ Ord(x) - Ord(y) <= k
    /\ Ord(y) - Ord(x) <= k

\* The distance loop has finished.
LoopDone == pc \in { "optimize", "energy", "print", "return", "done" }

IsPrefix(s, t) == Len(s) <= Len(t) /\ s = SubSeq(t, 1, Len(s))

\* Some statement of main can be executed: the guards of the actions, whose
\* assignments are defined wherever the guard holds.
CanStep ==
    \/ pc = "loop" /\ (LoopCondition \/ ~LoopCondition)
    \/ pc = "optimize"
    \/ pc = "energy"
    \/ pc = "print" /\ Len(out) < Len(OutputLines)
    \/ pc = "return"

\* ---- C1
\* C1 (as stated): for a waypoint list of length 0 or 1 the distance loop
\* reads no waypoint outside the list and the run is not killed; once the
\* loop has finished the total distance is 0, and once the total energy is
\* computed it is 0.
C1_BoundaryHandled ==
    Len(waypoints) <= 1 =>
      /\ ~oob
      /\ pc # "crashed"
      /\ (LoopDone => IsZero(totalDistance))
      /\ (pc \in { "print", "return", "done" } => IsZero(totalEnergy))

\* ---- C2
RECURSIVE SumOfDistances(_, _)
\* distance(ws[0], ws[1]) + ... + distance(ws[k-1], ws[k]), added from the
\* left to 0.0 (ws is indexed from 1 here).
SumOfDistances(ws, k) ==
    IF k = 0 THEN FromInt(0)
    ELSE FAdd(SumOfDistances(ws, k - 1), Distance(ws[k], ws[k + 1]))

\* C2: for a list of n >= 2 waypoints, when the loop has finished,
\* totalDistance is the sum of distance(waypoints[i], waypoints[i+1]) for
\* i = 0 .. n-2 taken in increasing order of i, and exactly these pairs were
\* handed to distance, once each and in that order.
C2_TotalIsSumOfConsecutive ==
    (Len(waypoints) >= 2 /\ LoopDone) =>
      /\ totalDistance = SumOfDistances(waypoints, Len(waypoints) - 1)
      /\ pairs = [k \in 1 .. Len(waypoints) - 1 |-> << k - 1, k >>]

C2_Witness ==
    /\ LoopDone
    /\ Len(waypoints) = 3
    /\ waypoints[1] # waypoints[2] /\ waypoints[2] # waypoints[3]
    /\ Len(pairs) = 2

\* ---- C3
\* C3: findOptimalSpeedAndAltitude(a, b) with a == 0 returns velocity 0
\* whatever b is, and does not evaluate b / (2 * a).
C3_ZeroCoefficient ==
    (pc = "energy" /\ IsZero(a)) => IsZero(optimalVelocity) /\ ~divided

C3_Witness == pc = "energy" /\ IsZero(a) /\ Negative(b) /\ ~divided

\* ---- C4
\* v * v * (2 * a) gives b back within the tolerance: v^2 = b / (2a).
SquareIsQuotient(v, ca, cb) ==
    /\ IsFinite(v)
    /\ Within(WideMul(WideMul(v, v), WideMul(FromInt(2), ca)), cb, UlpTolerance)

\* 2 * a is finite, and b / (2 * a) is 0 or in the range of full precision
\* (finite and not below the smallest normal value).
QuotientInRange(ca, cb) ==
    LET twoA == FMul(FromInt(2), ca)
        q    == FDiv(cb, twoA)
    IN  /\ IsFinite(twoA)
        /\ IsFinite(q)
        /\ (IsZero(cb) \/ q.m >= 2^(Precision - 1))

\* C4 (as stated): for every a > 0 and b >= 0 the function returns altitude
\* 100 and a velocity v >= 0 with v^2 = b / (2a).
C4_ClosedFormEverywhere ==
    (pc = "energy" /\ Positive(a) /\ IsFinite(a) /\ NonNegative(b)) =>
      /\ NonNegative(optimalVelocity)
      /\ optimalAltitude = FromInt(100)
      /\ SquareIsQuotient(optimalVelocity, a, b)

\* C4 (amended): for every a > 0 and b >= 0 the function returns altitude 100
\* and a velocity v >= 0; v^2 = b / (2a) holds within the tolerance when 2 * a
\* does not overflow and b / (2 * a) neither overflows nor underflows.
C4_ClosedFormInRange ==
    (pc = "energy" /\ Positive(a) /\ IsFinite(a) /\ NonNegative(b)) =>
      /\ NonNegative(optimalVelocity)
      /\ optimalAltitude = FromInt(100)
      /\ (QuotientInRange(a, b) => SquareIsQuotient(optimalVelocity, a, b))

C4_Witness ==
    /\ pc = "energy"
    /\ a = Lit(1, 3) /\ b = FromInt(3)
    /\ QuotientInRange(a, b)
    /\ Positive(optimalVelocity) /\ IsFinite(optimalVelocity)

\* ---- C5
\* The run has raised no failure signal, is not stuck, and a finished run
\* has written all four lines and ended with exit status 0.
RunsToNormalEnd ==
    /\ pc # "crashed"
    /\ (pc # "done" => CanStep)
    /\ (pc = "done" => Len(out) = 4 /\ exitStatus = << 0 >>)

\* Once computed, the velocity is not finite and the altitude is 100; once
\* computed, the total energy is not finite.
NonFinitePropagates ==
    /\ (optimalVelocity # Unset =>
          ~IsFinite(optimalVelocity) /\ optimalAltitude = FromInt(100))
    /\ (totalEnergy # Unset => ~IsFinite(totalEnergy))

\* C5 (as stated): when a != 0 and a and b have opposite signs, the run
\* raises no failure signal, the velocity returned is not finite, that value
\* propagates into the total energy, the altitude is 100, all four lines are
\* written and the exit status is 0.
C5_OppositeSignsPropagate ==
    ((Positive(a) /\ Negative(b)) \/ (Negative(a) /\ Positive(b))) =>
      RunsToNormalEnd /\ NonFinitePropagates

\* C5 (amended): the same, when the quotient b / (2 * a) as the program
\* computes it is negative (a and b of opposite signs, 2 * a not overflowing
\* and the quotient not underflowing to zero).
C5_NegativeQuotientPropagates ==
    (NotEqualZero(a) /\ Negative(FDiv(b, FMul(FromInt(2), a)))) =>
      RunsToNormalEnd /\ NonFinitePropagates

C5_Witness ==
    /\ pc = "done"
    /\ a = Lit(-1, 10) /\ b = Lit(5, 100)
    /\ IsNaN(optimalVelocity) /\ IsNaN(totalEnergy)
    /\ IsNaN(out[2].value) /\ IsNaN(out[4].value)

\* ---- C6
\* The calls and steps of a run over n waypoints, in order.
ExpectedCalls(n) ==
    [k \in 1 .. n - 1 |-> "distance"] \o
    << "findOptimalSpeedAndAltitude", "energyConsumption", "multiply",
       "Total Distance: ", "Optimal Velocity: ", "Optimal Altitude: ",
       "Estimated Total Energy: ", "return" >>

\* C6: in every run the steps happen in this order: the distance calls over
\* the consecutive pairs, one call of findOptimalSpeedAndAltitude, one call
\* of energyConsumption, the multiplication by the total distance, the four
\* output lines in the order Total Distance, Optimal Velocity, Optimal
\* Altitude, Estimated Total Energy; no line is written before the total
\* energy is computed; the run goes on until it has returned, and then stops.
C6_StepOrder ==
    /\ IsPrefix(calls, ExpectedCalls(Len(waypoints)))
    /\ (out # << >> => totalEnergy # Unset)
    /\ [k \in 1 .. Len(out) |-> out[k].label] =
         SubSeq(ExpectedCalls(1), 4, 3 + Len(out))
    /\ (pc = "done" <=> calls = ExpectedCalls(Len(waypoints)))
    /\ (pc = "done" <=> ~CanStep)

C6_Witness ==
    /\ pc = "done"
    /\ Len(waypoints) = 3
    /\ Len(calls) = 10
    /\ Len(out) = 4

C8_SampleOutput ==
    (waypoints = RefWaypoints /\ a = RefA /\ b = RefB /\ c = RefC
       /\ pc = "done") =>
      /\ Within(out[1].value, Lit(395215, 1000), UlpTolerance)
      /\ Within(out[2].value, Lit(223607, 100000), UlpTolerance)
      /\ Within(out[3].value, FromInt(100), UlpTolerance)
      /\ Within(out[4].value, Lit(478096, 100), UlpTolerance)

\* ---- C9
\* The two waypoints handed to distance in the one-call specification.
CallP == waypoints[1]
CallQ == waypoints[2]

\* The square of the coordinate difference d is 0: d * d lies below half of
\* the smallest positive value (d is finite; exact integer arithmetic).
SquareVanishes(d) ==
    /\ IsFinite(d)
    /\ \/ d.m = 0
       \/ /\ MinExp - 1 - 2 * d.e > 0
          /\ d.m * d.m < 2^(MinExp - 1 - 2 * d.e)

\* Every coordinate difference of p and q has a vanishing square.
AllSquaresVanish(p, q) ==
    /\ SquareVanishes(FSub(q.x, p.x))
    /\ SquareVanishes(FSub(q.y, p.y))
    /\ SquareVanishes(FSub(q.z, p.z))

\* C9 (as stated): distance(p, q) is non-negative, and is 0 if and only if
\* p and q have the same coordinates.
C9_ZeroIffSamePoint ==
    dist # Unset =>
      /\ NonNegative(dist)
      /\ (IsZero(dist) <=> CallP = CallQ)

\* C9 (amended): distance(p, q) is non-negative; it is 0 when p and q have
\* the same coordinates; and it is 0 exactly when the square of every
\* coordinate difference underflows to 0.
C9_ZeroIffSquaresVanish ==
    dist # Unset =>
      /\ NonNegative(dist)
      /\ (CallP = CallQ => IsZero(dist))
      /\ (IsZero(dist) <=> AllSquaresVanish(CallP, CallQ))

C9_Witness ==
    /\ dist # Unset
    /\ CallP # CallQ
    /\ IsZero(dist)
    /\ CallQ.x = MinPositive /\ CallP.x = FromInt(0)

\* ---- C10
\* C10: no step of a run changes the waypoint list or a coefficient.
C10_InputsUnchanged == [][UNCHANGED inputs]_vars

C10_Witness ==
    /\ pc = "done"
    /\ Len(waypoints) = MaxWaypoints
    /\ Len(pairs) = MaxWaypoints - 1
    /\ divided

====
